---- MODULE Spec2Model ----
(***************************************************************************)
(* A model of src/naive_bayes.py: the NaiveBayes spam filter.              *)
(*                                                                         *)
(* A text is a sequence of one-character strings, a token is such a        *)
(* sequence too (<<>> is Python's ''), a Python set is a set, a Python     *)
(* list is a sequence and a dict is a function whose DOMAIN is its key set.*)
(* Every operation is one action; `op`, `arg` and `ret` record the last    *)
(* call, its arguments and its outcome (a returned value or the exception  *)
(* that ended it); of a call of fit, `arg` keeps the lengths of the two    *)
(* lists, and `last_fit` the lists themselves if the call returned.        *)
(* `fit_calls` counts the calls of fit.                                    *)
(***************************************************************************)
EXTENDS Integers, Sequences, FiniteSets, TLC

VARIABLES num_train_hams, num_train_spams, word_counts_spam, word_counts_ham,
          op, arg, ret, last_fit, fit_calls

state == <<num_train_hams, num_train_spams, word_counts_spam, word_counts_ham>>
vars == <<num_train_hams, num_train_spams, word_counts_spam, word_counts_ham,
          op, arg, ret, last_fit, fit_calls>>

(***************************************************************************)
(* Bounds of the model.                                                    *)
(***************************************************************************)
\* the most documents one fit call is given, both lists together
MaxTrain == 2
\* the most documents one accuracy call is given, both lists together
MaxEval == 2
\* the longest body that follows the header in the tokenizer's inputs
MaxBody == 3
\* fit_calls stops counting here
MaxFitCalls == 2

(***************************************************************************)
(* Labels and outcomes.                                                    *)
(***************************************************************************)
HAM_LABEL == "ham"
SPAM_LABEL == "spam"
\* a call that returns nothing (fit)
None == "None"
\* int / int with a zero divisor
ZeroDivisionError == "ZeroDivisionError"
\* open() of a file that cannot be read
IOError == "IOError"

\* An outcome is a pair: how the call ended, and the value or the exception.
Raise(e) == <<"raise", e>>
ReturnNone == <<"none", None>>
ReturnLabel(l) == <<"label", l>>
ReturnWords(w) == <<"words", w>>
\* a float quotient correct / total, kept as the two ints it is computed from
ReturnNumber(correct, total) == <<"number", <<correct, total>>>>

(***************************************************************************)
(* word_set: the tokenizer.                                                *)
(***************************************************************************)
\* f.read() of a file opened in text mode: every line ending of the file,
\* '\r\n', '\r' or '\n', is read as '\n'
RECURSIVE ReadText(_)
ReadText(data) ==
    IF data = <<>> THEN <<>>
    ELSE IF Head(data) = "\r"
         THEN <<"\n">> \o ReadText(IF Len(data) >= 2 /\ data[2] = "\n"
                                    THEN Tail(Tail(data)) ELSE Tail(data))
    ELSE <<Head(data)>> \o ReadText(Tail(data))

\* the slice [9:] drops this many characters
HeaderLen == 9

\* text[8:], the slice that drops the eight characters of 'Subject:' only
DropLabelOnly(text) == SubSeq(text, HeaderLen, Len(text))

\* f.read()[9:]
DropHeader(text) == SubSeq(text, HeaderLen + 1, Len(text))

\* str.replace(text, c, '') for a one-character c
RECURSIVE RemoveChar(_, _)
RemoveChar(text, c) ==
    IF text = <<>> THEN <<>>
    ELSE IF Head(text) = c THEN RemoveChar(Tail(text), c)
    ELSE <<Head(text)>> \o RemoveChar(Tail(text), c)

\* str.replace(text, c, d) for one-character c and d
ReplaceChar(text, c, d) == [i \in 1..Len(text) |-> IF text[i] = c THEN d ELSE text[i]]

\* text.replace('\n', ''): the newline deleted instead of turned into a space
DeleteNewlines(text) == RemoveChar(text, "\n")

\* text.replace('\n', ' ')
ReplaceNewlines(text) == ReplaceChar(text, "\n", " ")

\* text.split(' '): the pieces between single spaces, empty pieces kept
RECURSIVE SplitFrom(_, _)
SplitFrom(text, piece) ==
    IF text = <<>> THEN <<piece>>
    ELSE IF Head(text) = " " THEN <<piece>> \o SplitFrom(Tail(text), <<>>)
    ELSE SplitFrom(Tail(text), Append(piece, Head(text)))

Split(text) == SplitFrom(text, <<>>)

\* set(words)
SetOf(words) == {words[i] : i \in 1..Len(words)}

\* the body of word_set, applied to the content of the file
WordsOfText(content) ==
    SetOf(Split(ReplaceNewlines(RemoveChar(DropHeader(ReadText(content)), "\r"))))

(***************************************************************************)
(* The files on disk. A name outside DOMAIN FileText cannot be opened.     *)
(***************************************************************************)
Subject == <<"S", "u", "b", "j", "e", "c", "t", ":">>

FileText ==
    [f \in {"h1", "s1", "t1"} |->
        CASE f = "h1" -> Subject \o <<" ", "c", "\n">>
          [] f = "s1" -> Subject \o <<" ", "b", "\r", "\n", "b">>
          [] f = "t1" -> Subject \o <<" ", "a", " ", "b", "\n", "c">>]

FileNames == DOMAIN FileText \cup {"missing"}

Readable(filename) == filename \in DOMAIN FileText

AllReadable(filenames) == \A i \in 1..Len(filenames) : Readable(filenames[i])

\* the set word_set returns for each file that can be read
FileWords == [f \in DOMAIN FileText |-> WordsOfText(FileText[f])]

\* word_set(filename) for a file that can be read
word_set(filename) == FileWords[filename]

(***************************************************************************)
(* fit.                                                                    *)
(***************************************************************************)
\* {}
EmptyDict == [w \in {} |-> 0]

\* the inner loop of get_counts with `dict1[word] = 1` in both branches
CountWordsNoIncrement(dict1, set1) ==
    [w \in DOMAIN dict1 \cup set1 |-> IF w \in set1 THEN 1 ELSE dict1[w]]

\* the inner loop of get_counts: one increment for every word of the set
CountWords(dict1, set1) ==
    [w \in DOMAIN dict1 \cup set1 |->
        IF w \in set1
        THEN (IF w \in DOMAIN dict1 THEN dict1[w] + 1 ELSE 1)
        ELSE dict1[w]]

\* the outer loop of get_counts, over files that can all be read
RECURSIVE get_counts_loop(_, _)
get_counts_loop(dict1, filenames) ==
    IF filenames = <<>> THEN dict1
    ELSE get_counts_loop(CountWords(dict1, word_set(Head(filenames))), Tail(filenames))

get_counts(filenames) == get_counts_loop(EmptyDict, filenames)

\* self.num_train_hams += len(train_hams)
AddLen(filenames) == num_train_hams + Len(filenames)

\* len(train_hams)
NewLen(filenames) == Len(filenames)

\* the lists of at most n file names
ListsUpTo(n) == UNION {[1..k -> FileNames] : k \in 0..n}

\* the pairs of lists of at most n file names together
ListPairs(n) ==
    {p \in ListsUpTo(n) \X ListsUpTo(n) : Len(p[1]) + Len(p[2]) <= n}

\* the arguments of the fit calls and of the accuracy calls of the model
FitArgs == ListPairs(MaxTrain)
AccuracyArgs == ListPairs(MaxEval)

\* last_fit when the last call of fit did not return: never called, or ended
\* by an exception
NoFit == [hams |-> <<>>, spams |-> <<>>, ok |-> FALSE]

\* fit(train_hams, train_spams). The two totals are assigned first; the
\* spam table is built and assigned next, the ham table last. A file that
\* cannot be opened ends the call there, with what was assigned so far.
Fit(train_hams, train_spams) ==
    /\ num_train_hams' = NewLen(train_hams)
    /\ num_train_spams' = Len(train_spams)
    /\ IF ~AllReadable(train_spams)
       THEN /\ UNCHANGED <<word_counts_spam, word_counts_ham>>
            /\ ret' = Raise(IOError)
       ELSE /\ word_counts_spam' = get_counts(train_spams)
            /\ IF ~AllReadable(train_hams)
               THEN /\ UNCHANGED word_counts_ham
                    /\ ret' = Raise(IOError)
               ELSE /\ word_counts_ham' = get_counts(train_hams)
                    /\ ret' = ReturnNone
    /\ op' = "fit"
    /\ arg' = <<Len(train_hams), Len(train_spams)>>
    /\ last_fit' = IF AllReadable(train_spams) /\ AllReadable(train_hams)
                   THEN [hams |-> train_hams, spams |-> train_spams, ok |-> TRUE]
                   ELSE NoFit
    /\ fit_calls' = IF fit_calls < MaxFitCalls THEN fit_calls + 1 ELSE fit_calls

(***************************************************************************)
(* predict.                                                                *)
(***************************************************************************)
\* dict.get(word, 0)
DictGet(dict1, word) == IF word \in DOMAIN dict1 THEN dict1[word] ELSE 0

\* a lookup that inserts the default for a missing key, as
\* dict.setdefault(word, 0) or a defaultdict would
DictAfterSetdefault(dict1, words) ==
    [w \in DOMAIN dict1 \cup words |-> DictGet(dict1, w)]

\* the dict after dict.get(word, 0) for every word of the set: get inserts nothing
DictAfterGets(dict1, words) == dict1

\* the orders in which `for word in set2` can visit the set: the order of a
\* set of str depends on the hash seed of the run; both loops of one call
\* visit the same set object, hence in the same order
Orders(set2) ==
    {o \in [1..Cardinality(set2) -> set2] :
        \A i, j \in 1..Cardinality(set2) : i # j => o[i] # o[j]}

FileOrders == [f \in DOMAIN FileText |-> Orders(FileWords[f])]

\* the argument of np.log for one word, (count + 1) / (num_train + 2), kept
\* as the pair of its numerator and denominator
Ratio(dict1, num_train, word) == <<DictGet(dict1, word) + 1, num_train + 2>>

Ratios(dict1, num_train, order) ==
    [i \in 1..Len(order) |-> Ratio(dict1, num_train, order[i])]

SameRatio(r, q) == r[1] * q[2] = q[1] * r[2]

RECURSIVE ProdNum(_)
ProdNum(ratios) == IF ratios = <<>> THEN 1 ELSE Head(ratios)[1] * ProdNum(Tail(ratios))

RECURSIVE ProdDen(_)
ProdDen(ratios) == IF ratios = <<>> THEN 1 ELSE Head(ratios)[2] * ProdDen(Tail(ratios))

\* spam_sum > ham_sum for the sums of real logarithms: the products compared.
\* p_spam = num_train_spams / N and p_ham = num_train_hams / N share N > 0;
\* a prior of 0 has the logarithm -inf, below every finite sum
ExactGreater(sratios, hratios) ==
    num_train_spams * ProdNum(sratios) * ProdDen(hratios)
        > num_train_hams * ProdNum(hratios) * ProdDen(sratios)

ExactEqual(sratios, hratios) ==
    num_train_spams * ProdNum(sratios) * ProdDen(hratios)
        = num_train_hams * ProdNum(hratios) * ProdDen(sratios)

\* the terms that change a float sum: np.log(1.0) is 0.0 and s + 0.0 is s
IsNotOne(r) == r[1] # r[2]
Effective(ratios) == SelectSeq(ratios, IsNotOne)

\* two float sums 0 + t1 + t2 + ... that are the same double: the same
\* terms in the same order, or with the first two swapped (0 + t1 is exact and
\* t1 + t2 = t2 + t1); equal ratios are the same double
SameSum(a, b) ==
    /\ Len(a) = Len(b)
    /\ \/ \A i \in 1..Len(a) : SameRatio(a[i], b[i])
       \/ /\ Len(a) >= 2
          /\ SameRatio(a[1], b[2])
          /\ SameRatio(a[2], b[1])
          /\ \A i \in 3..Len(a) : SameRatio(a[i], b[i])

\* the values `spam_sum > ham_sum` can take for the float sums of one call.
\* Sums whose real values differ compare as the real values do (the rounding
\* error of a few additions is far below the gap between two such sums).
\* Sums with the same real value are the same double when they add the same
\* doubles in the same order; added in another order they are rounded
\* differently, and either may come out the greater one, by the order in
\* which the set is visited: with
\* x = np.log(1/3) and y = np.log(2/3), ((x + y) + x) + np.log(1/2) is
\* -3.295836866004329 and ((x + x) + y) + np.log(1/2) is -3.2958368660043296
FloatGreater(sratios, hratios) ==
    IF ~ExactEqual(sratios, hratios) THEN {ExactGreater(sratios, hratios)}
    ELSE IF /\ SameSum(Effective(sratios), Effective(hratios))
            /\ num_train_spams = num_train_hams
         THEN {FALSE}
    ELSE {TRUE, FALSE}

\* priors guarded against an empty training set
PriorsNeverRaise(hams, spams) == FALSE

\* the division by num_train_hams + num_train_spams raises
PriorsRaise(hams, spams) == hams + spams = 0

\* the labels predict can return once the file is read
PredictLabels(filename) ==
    {IF greater THEN SPAM_LABEL ELSE HAM_LABEL :
        greater \in UNION {FloatGreater(Ratios(word_counts_spam, num_train_spams, o),
                                        Ratios(word_counts_ham, num_train_hams, o)) :
                           o \in FileOrders[filename]}}

\* the outcomes of predict(filename): the priors are computed before the
\* file is opened
PredictOutcomes(filename) ==
    IF PriorsRaise(num_train_hams, num_train_spams) THEN {Raise(ZeroDivisionError)}
    ELSE IF ~Readable(filename) THEN {Raise(IOError)}
    ELSE {ReturnLabel(l) : l \in PredictLabels(filename)}

\* the words predict(filename) looks up in both tables
LookedUp(filename) ==
    IF PriorsRaise(num_train_hams, num_train_spams) \/ ~Readable(filename) THEN {}
    ELSE word_set(filename)

Predict(filename) ==
    /\ \E out \in PredictOutcomes(filename) : ret' = out
    /\ word_counts_spam' = DictAfterGets(word_counts_spam, LookedUp(filename))
    /\ word_counts_ham' = DictAfterGets(word_counts_ham, LookedUp(filename))
    /\ UNCHANGED <<num_train_hams, num_train_spams, last_fit, fit_calls>>
    /\ op' = "predict"
    /\ arg' = filename

(***************************************************************************)
(* accuracy.                                                               *)
(***************************************************************************)
\* a loop that counts every prediction, whatever its label
CountAll(total_correct, predictions, label) == total_correct + Len(predictions)

\* for filename in ...: if self.predict(filename) == label: total_correct += 1
RECURSIVE CountLoop(_, _, _)
CountLoop(total_correct, predictions, label) ==
    IF predictions = <<>> THEN total_correct
    ELSE CountLoop(IF Head(predictions) = label THEN total_correct + 1 ELSE total_correct,
                   Tail(predictions), label)

\* a quotient guarded against an empty evaluation set
QuotientOrZero(total_correct, total_datapoints) ==
    ReturnNumber(total_correct, total_datapoints)

\* total_correct / total_datapoints; a zero divisor raises
Quotient(total_correct, total_datapoints) ==
    IF total_datapoints = 0 THEN Raise(ZeroDivisionError)
    ELSE ReturnNumber(total_correct, total_datapoints)

\* the files of hams and spams, in the order accuracy predicts them
Predicted(hams, spams) == hams \o spams

\* the files accuracy reads before it returns or raises
RECURSIVE ReadablePrefix(_)
ReadablePrefix(filenames) ==
    IF filenames = <<>> \/ PriorsRaise(num_train_hams, num_train_spams) THEN <<>>
    ELSE IF ~Readable(Head(filenames)) THEN <<>>
    ELSE <<Head(filenames)>> \o ReadablePrefix(Tail(filenames))

\* the labels self.predict(filename) can return in this state, for every
\* file that can be read
PredictNow == [f \in DOMAIN FileText |-> PredictLabels(f)]

\* the outcomes of accuracy(hams, spams), where predict[f] are the labels
\* self.predict(f) can return: the first call of predict that raises ends
\* it; the division is its last step
AccuracyOutcomes(hams, spams, predict) ==
    LET files == Predicted(hams, spams)
        labels == [i \in 1..Len(files) |-> predict[files[i]]]
    IN  IF files # <<>> /\ PriorsRaise(num_train_hams, num_train_spams)
        THEN {Raise(ZeroDivisionError)}
        ELSE IF ~AllReadable(files) THEN {Raise(IOError)}
        ELSE {Quotient(CountLoop(CountLoop(0, SubSeq(p, 1, Len(hams)), HAM_LABEL),
                                 SubSeq(p, Len(hams) + 1, Len(files)), SPAM_LABEL),
                       Len(hams) + Len(spams)) :
                p \in {q \in [1..Len(files) -> {HAM_LABEL, SPAM_LABEL}] :
                          \A i \in 1..Len(files) : q[i] \in labels[i]}}

\* the table after the lookups of every call of predict that got to them
RECURSIVE AfterPredicts(_, _)
AfterPredicts(dict1, filenames) ==
    IF filenames = <<>> THEN dict1
    ELSE AfterPredicts(DictAfterGets(dict1, word_set(Head(filenames))), Tail(filenames))

Accuracy(hams, spams, predict) ==
    /\ \E out \in AccuracyOutcomes(hams, spams, predict) : ret' = out
    /\ word_counts_spam' =
          AfterPredicts(word_counts_spam, ReadablePrefix(Predicted(hams, spams)))
    /\ word_counts_ham' =
          AfterPredicts(word_counts_ham, ReadablePrefix(Predicted(hams, spams)))
    /\ UNCHANGED <<num_train_hams, num_train_spams, last_fit, fit_calls>>
    /\ op' = "accuracy"
    /\ arg' = <<hams, spams>>

(***************************************************************************)
(* The classifier.                                                         *)
(***************************************************************************)
\* __init__
Init ==
    /\ num_train_hams = 0
    /\ num_train_spams = 0
    /\ word_counts_spam = EmptyDict
    /\ word_counts_ham = EmptyDict
    /\ op = "init"
    /\ arg = <<>>
    /\ ret = ReturnNone
    /\ last_fit = NoFit
    /\ fit_calls = 0

FitCall == \E a \in FitArgs : Fit(a[1], a[2])

PredictCall == \E filename \in FileNames : Predict(filename)

AccuracyCall ==
    \E predict \in {PredictNow} :
        \E a \in AccuracyArgs : Accuracy(a[1], a[2], predict)

Next == FitCall \/ PredictCall \/ AccuracyCall

Spec == Init /\ [][Next]_vars

\* training alone: any sequence of calls of fit
FitSpec == Init /\ [][FitCall]_vars

(***************************************************************************)
(* The tokenizer on its own: word_set applied to the content of any file.  *)
(***************************************************************************)
Alphabet == {"X", "a", "b", " ", "\n", "\r"}

Bodies == UNION {[1..k -> Alphabet] : k \in 0..MaxBody}

\* files that begin with the label and a space, with the label alone, or
\* with no header at all
Contents == {h \o b : h \in {Subject \o <<" ">>, Subject, <<>>}, b \in Bodies}

\* a new classifier and the content of the file word_set is called on
TokInit ==
    /\ num_train_hams = 0
    /\ num_train_spams = 0
    /\ word_counts_spam = EmptyDict
    /\ word_counts_ham = EmptyDict
    /\ op = "init"
    /\ arg \in Contents
    /\ ret = ReturnNone
    /\ last_fit = NoFit
    /\ fit_calls = 0

WordSet ==
    /\ op = "init"
    /\ ret' = ReturnWords(WordsOfText(arg))
    /\ op' = "word_set"
    /\ UNCHANGED <<num_train_hams, num_train_spams, word_counts_spam, word_counts_ham,
                   arg, last_fit, fit_calls>>

TokSpec == TokInit /\ [][WordSet]_vars

(***************************************************************************)
(* The properties.                                                         *)
(***************************************************************************)
Total == num_train_hams + num_train_spams

\* the number of entries of a list whose word set contains the word
DocsWith(filenames, word) ==
    Cardinality({i \in 1..Len(filenames) : word \in word_set(filenames[i])})

\* the table holds exactly the words of the listed files, each with the
\* number of entries that contain it
IsTableOf(dict1, filenames) ==
    /\ DOMAIN dict1 = UNION {word_set(filenames[i]) : i \in 1..Len(filenames)}
    /\ \A w \in DOMAIN dict1 : dict1[w] = DocsWith(filenames, w)

\* C1: when fit(train_hams, train_spams) has returned, num_train_hams and
\* num_train_spams are the lengths of the two lists, and each table maps
\* exactly the words of its label's files, each to the number of entries of
\* the list whose word set contains it.
C1_FitCounts ==
    (op = "fit" /\ ret = ReturnNone) =>
        /\ last_fit.ok
        /\ num_train_hams = Len(last_fit.hams)
        /\ num_train_spams = Len(last_fit.spams)
        /\ IsTableOf(word_counts_ham, last_fit.hams)
        /\ IsTableOf(word_counts_spam, last_fit.spams)

\* a fit that returned, with a ham word counted in two files and another in one
C1_Witness ==
    /\ op = "fit"
    /\ ret = ReturnNone
    /\ \E w, v \in DOMAIN word_counts_ham :
          word_counts_ham[w] = 2 /\ word_counts_ham[v] = 1

\* the tokens 'X', 'a', 'b' and ''
TokX == <<"X">>
TokA == <<"a">>
TokB == <<"b">>
TokEmpty == <<>>

\* C2 as stated: the content "Subject:X" tokenizes to {"X"}.
C2_SubjectX ==
    (op = "word_set" /\ arg = Subject \o <<"X">>) => ret = ReturnWords({TokX})

\* C2: the content "Subject: X" (the label, one space, "X") tokenizes to
\* {"X"}; of the content "Subject:X" the nine characters dropped include the
\* X, and it tokenizes to {""}.
C2_HeaderStrip ==
    /\ (op = "word_set" /\ arg = Subject \o <<" ", "X">>) => ret = ReturnWords({TokX})
    /\ (op = "word_set" /\ arg = Subject \o <<"X">>) => ret = ReturnWords({TokEmpty})

C2_Witness ==
    /\ op = "word_set"
    /\ arg = Subject \o <<" ", "X">>
    /\ ret = ReturnWords({TokX})

\* C3 as stated: the content "Subject:a\nb" tokenizes to a set that holds
\* "a" and "b".
C3_SubjectANewlineB ==
    (op = "word_set" /\ arg = Subject \o <<"a", "\n", "b">>) =>
        (ret[1] = "words" /\ TokA \in ret[2] /\ TokB \in ret[2])

\* C3: the content "Subject: a\nb" tokenizes to {"a", "b"}, the newline
\* separating the two tokens; the content "Subject:a\nb" loses the "a" with
\* the nine characters dropped and tokenizes to {"", "b"}.
C3_NewlineFolding ==
    /\ (op = "word_set" /\ arg = Subject \o <<" ", "a", "\n", "b">>) =>
          ret = ReturnWords({TokA, TokB})
    /\ (op = "word_set" /\ arg = Subject \o <<"a", "\n", "b">>) =>
          ret = ReturnWords({TokEmpty, TokB})

C3_Witness ==
    /\ op = "word_set"
    /\ arg = Subject \o <<" ", "a", "\n", "b">>
    /\ ret = ReturnWords({TokA, TokB})

\* the product of the numbers f[w], w in the set
RECURSIVE Product(_, _)
Product(f, words) ==
    IF words = {} THEN 1
    ELSE LET w == CHOOSE v \in words : TRUE
         IN  f[w] * Product(f, words \ {w})

\* the score of the spam class exceeds the score of the ham class for the
\* words of the file: exp of the two scores compared, the common factor
\* 1 / N of the priors and the denominators cleared
SpamScoreGreater(filename) ==
    LET words == word_set(filename)
        spam == [w \in words |-> DictGet(word_counts_spam, w) + 1]
        ham == [w \in words |-> DictGet(word_counts_ham, w) + 1]
        sden == [w \in words |-> num_train_spams + 2]
        hden == [w \in words |-> num_train_hams + 2]
    IN  num_train_spams * Product(spam, words) * Product(hden, words)
            > num_train_hams * Product(ham, words) * Product(sden, words)

\* C4: with both classes non-empty, predict returns SPAM if and only if the
\* spam score is strictly greater than the ham score, and HAM otherwise, an
\* exact tie included.
C4_DecisionRule ==
    (op = "predict" /\ ret[1] = "label" /\ num_train_hams > 0 /\ num_train_spams > 0) =>
        (ret[2] = SPAM_LABEL <=> SpamScoreGreater(arg))

\* C5: with num_train_hams + num_train_spams = 0, every call of predict and
\* of accuracy ends in ZeroDivisionError.
C5_UntrainedRaises ==
    (op \in {"predict", "accuracy"} /\ Total = 0) => ret = Raise(ZeroDivisionError)

\* accuracy of a non-empty pair of lists after fit([], [])
C5_Witness ==
    /\ op = "accuracy"
    /\ Total = 0
    /\ last_fit.ok
    /\ arg[1] # <<>>
    /\ arg[2] # <<>>
    /\ ret = Raise(ZeroDivisionError)

\* C6: for a trained classifier and lists of readable files that are not
\* both empty, accuracy returns matches / total, where total is the number of
\* files and matches the number of files of hams predicted HAM plus the
\* number of files of spams predicted SPAM, so 0 <= matches <= total.
C6_Accuracy ==
    (op = "accuracy" /\ Total > 0 /\ arg # <<<<>>, <<>>>>
        /\ AllReadable(arg[1]) /\ AllReadable(arg[2])) =>
        /\ ret[1] = "number"
        /\ ret[2][2] = Len(arg[1]) + Len(arg[2])
        /\ 0 <= ret[2][1]
        /\ ret[2][1] <= ret[2][2]
        /\ \E hp \in [1..Len(arg[1]) -> {HAM_LABEL, SPAM_LABEL}],
              sp \in [1..Len(arg[2]) -> {HAM_LABEL, SPAM_LABEL}] :
              /\ \A i \in 1..Len(arg[1]) : hp[i] \in PredictLabels(arg[1][i])
              /\ \A i \in 1..Len(arg[2]) : sp[i] \in PredictLabels(arg[2][i])
              /\ ret[2][1] = Cardinality({i \in 1..Len(arg[1]) : hp[i] = HAM_LABEL})
                             + Cardinality({i \in 1..Len(arg[2]) : sp[i] = SPAM_LABEL})

\* one file of two predicted as labelled
C6_Witness ==
    /\ op = "accuracy"
    /\ Total > 0
    /\ ret = ReturnNumber(1, 2)
    /\ arg[1] # <<>>
    /\ arg[2] # <<>>

\* C7: accuracy([], []) ends in ZeroDivisionError, trained or not.
C7_EmptyRaises ==
    (op = "accuracy" /\ arg = <<<<>>, <<>>>>) => ret = Raise(ZeroDivisionError)

\* accuracy([], []) of a trained classifier
C7_Witness ==
    /\ op = "accuracy"
    /\ arg = <<<<>>, <<>>>>
    /\ Total > 0
    /\ last_fit.ok
    /\ ret = Raise(ZeroDivisionError)

\* C8: a call of predict or accuracy, returning or raising, leaves
\* num_train_hams, num_train_spams and both tables as they were.
C8_ReadOnly == [][op' \in {"predict", "accuracy"} => state' = state]_vars

\* predict has returned a label for a file with a word that neither table holds
C8_Witness ==
    /\ op = "predict"
    /\ ret[1] = "label"
    /\ DOMAIN word_counts_spam # {}
    /\ DOMAIN word_counts_ham # {}
    /\ \E w \in word_set(arg) :
          w \notin DOMAIN word_counts_spam /\ w \notin DOMAIN word_counts_ham

\* the fields after fit(train_hams, train_spams) on a new classifier
FreshFit(train_hams, train_spams) ==
    <<Len(train_hams), Len(train_spams), get_counts(train_spams), get_counts(train_hams)>>

\* C9: after a call of fit that returned, whatever calls came before it and
\* whatever calls of predict and accuracy came after it, the four fields are
\* those the same call of fit gives a new classifier.
C9_FitReplaces ==
    last_fit.ok => state = FreshFit(last_fit.hams, last_fit.spams)

\* a second or later call of fit has returned, and accuracy has run since
C9_Witness ==
    /\ last_fit.ok
    /\ fit_calls = MaxFitCalls
    /\ op = "accuracy"
    /\ num_train_hams = 1
    /\ num_train_spams = 0

\* C10: in every reachable state, a call of fit ended by an exception
\* included, every count of a table is between 0 and the number of training
\* files of its label.
C10_SmoothingBound ==
    /\ \A w \in DOMAIN word_counts_spam :
          0 <= word_counts_spam[w] /\ word_counts_spam[w] <= num_train_spams
    /\ \A w \in DOMAIN word_counts_ham :
          0 <= word_counts_ham[w] /\ word_counts_ham[w] <= num_train_hams

====
